---- MODULE Spec2Model ----
(***************************************************************************)
(* Model of the chat worker in src/src/index.ts: the dispatcher (fetch),   *)
(* handleChatRequest and the background pump it starts.                    *)
(*                                                                         *)
(* Text is a sequence of Unicode code points, a byte chunk a sequence of   *)
(* numbers 0..255.  Every await of the source is a point where the handler *)
(* or the pump is suspended: one action is the code that runs between two  *)
(* awaits.                                                                 *)
(***************************************************************************)
EXTENDS Integers, Sequences, FiniteSets, TLC

\* ------------------------------------------------------------------ bounds

\* Requests the worker can hold at once.
NumReq == 2
\* Messages in a request's conversation.
MaxMsgs == 2
\* Chunks one provider stream yields before it must signal done.
MaxChunks == 3

Req == 1..NumReq

\* ------------------------------------------------------------ configuration

\* const MODEL_ID
MODEL_ID == "@cf/openai/gpt-oss-120b"

\* const SYSTEM_PROMPT
SYSTEM_PROMPT == "You are a helpful, friendly assistant. Provide concise and accurate responses."

\* --------------------------------------------------------------------- text

RECURSIVE Flatten(_)
\* The concatenation of a sequence of sequences.
Flatten(ss) == IF ss = <<>> THEN <<>> ELSE Head(ss) \o Flatten(Tail(ss))

\* U+FFFD, what the decoder emits for a malformed sequence.
REPLACEMENT == 65533

\* A TextDecoder("utf-8") between two decode calls: the WHATWG UTF-8
\* decoder's bytes needed, bytes seen, code point and boundaries.  The
\* decoder also drops a leading byte order mark; no chunk here has one.
FreshDecoder == [needed |-> 0, seen |-> 0, cp |-> 0, lower |-> 128, upper |-> 191]

\* One byte through the UTF-8 decoder: the new state, the code points
\* emitted, and whether the byte is to be read again.
DecodeByte(d, b) ==
    IF d.needed = 0
    THEN CASE b <= 127 -> [d |-> FreshDecoder, out |-> <<b>>, again |-> FALSE]
           [] b >= 194 /\ b <= 223 ->
                [d |-> [FreshDecoder EXCEPT !.needed = 1, !.cp = b - 192],
                 out |-> <<>>, again |-> FALSE]
           [] b >= 224 /\ b <= 239 ->
                [d |-> [FreshDecoder EXCEPT !.needed = 2, !.cp = b - 224,
                                            !.lower = IF b = 224 THEN 160 ELSE 128,
                                            !.upper = IF b = 237 THEN 159 ELSE 191],
                 out |-> <<>>, again |-> FALSE]
           [] b >= 240 /\ b <= 244 ->
                [d |-> [FreshDecoder EXCEPT !.needed = 3, !.cp = b - 240,
                                            !.lower = IF b = 240 THEN 144 ELSE 128,
                                            !.upper = IF b = 244 THEN 143 ELSE 191],
                 out |-> <<>>, again |-> FALSE]
           [] OTHER -> [d |-> FreshDecoder, out |-> <<REPLACEMENT>>, again |-> FALSE]
    ELSE IF b < d.lower \/ b > d.upper
         THEN [d |-> FreshDecoder, out |-> <<REPLACEMENT>>, again |-> TRUE]
         ELSE IF d.seen + 1 = d.needed
              THEN [d |-> FreshDecoder, out |-> <<d.cp * 64 + (b - 128)>>, again |-> FALSE]
              ELSE [d |-> [d EXCEPT !.seen = d.seen + 1, !.cp = d.cp * 64 + (b - 128),
                                    !.lower = 128, !.upper = 191],
                    out |-> <<>>, again |-> FALSE]

RECURSIVE DecodeStream(_, _)
\* decoder.decode(value, { stream: true }): the text of the bytes that
\* complete a character, and the decoder keeping an unfinished one.
DecodeStream(d, bytes) ==
    IF bytes = <<>> THEN [d |-> d, text |-> <<>>]
    ELSE LET r == DecodeByte(d, Head(bytes))
             rest == DecodeStream(r.d, IF r.again THEN bytes ELSE Tail(bytes))
         IN [d |-> rest.d, text |-> r.out \o rest.text]

\* One code point as UTF-8 bytes.
EncodeCodePoint(c) ==
    CASE c < 128 -> <<c>>
      [] c >= 128 /\ c < 2048 -> <<192 + (c \div 64), 128 + (c % 64)>>
      [] c >= 2048 /\ c < 65536 ->
           <<224 + (c \div 4096), 128 + ((c \div 64) % 64), 128 + (c % 64)>>
      [] OTHER -> <<240 + (c \div 262144), 128 + ((c \div 4096) % 64),
                    128 + ((c \div 64) % 64), 128 + (c % 64)>>

\* encoder.encode(text): TextEncoder's UTF-8 bytes of a text.
Encode(text) == Flatten([i \in 1..Len(text) |-> EncodeCodePoint(text[i])])

\* The lower-case hexadecimal digit of n in 0..15, as a code point.
HexDigit(n) == IF n < 10 THEN 48 + n ELSE 87 + n

\* One code point inside a JSON string literal, as JSON.stringify
\* writes it (QuoteJSONString).
EscapeCodePoint(c) ==
    CASE c = 34 -> <<92, 34>>
      [] c = 92 -> <<92, 92>>
      [] c = 8 -> <<92, 98>>
      [] c = 9 -> <<92, 116>>
      [] c = 10 -> <<92, 110>>
      [] c = 12 -> <<92, 102>>
      [] c = 13 -> <<92, 114>>
      [] c < 32 /\ c \notin {8, 9, 10, 12, 13} ->
           <<92, 117, 48, 48, HexDigit(c \div 16), HexDigit(c % 16)>>
      [] OTHER -> <<c>>

\* JSON.stringify of a string: the quoted, escaped literal.
QuoteJSONString(text) ==
    <<34>> \o Flatten([i \in 1..Len(text) |-> EscapeCodePoint(text[i])]) \o <<34>>

\* A JavaScript value that is a string of the given code points.
Str(chars) == [undef |-> FALSE, chars |-> chars]

\* The JavaScript value undefined, where a string is expected.
Undefined == [undef |-> TRUE, chars |-> <<>>]

\* JSON.stringify({ response: text }): a property whose value is undefined
\* is left out of the object.
StringifyResponse(text) ==
    IF text.undef THEN <<123, 125>>
    ELSE <<123, 34, 114, 101, 115, 112, 111, 110, 115, 101, 34, 58>>
         \o QuoteJSONString(text.chars) \o <<125>>

\* encoder.encode(JSON.stringify({ response: text }) + "\n"): the bytes of
\* one event.
EventBytes(text) == Encode(StringifyResponse(text) \o <<10>>)

\* ------------------------------------------------------- the environment

Methods == {"GET", "POST", "PUT"}
Paths == {"/", "/index.html", "/api/chat", "/api/chat/extra", "/api/unknown"}
\* A request body: text that parses as JSON, or text that does not.
Payloads == {"json", "notjson"}

\* ChatMessage of ./types: a role and a content.
Roles == {"system", "user", "assistant"}
Contents == {"hi", "yo"}
ChatMessages == [role : Roles, content : Contents]

\* The conversations a request body can carry.
Conversations == UNION {[1..n -> ChatMessages] : n \in 0..MaxMsgs}

\* What request.json() resolves to: a body without messages, a body whose
\* messages is a conversation, or a value whose messages cannot be filtered
\* (not an array, or the body is not an object).
ParsedBodies ==
    {[kind |-> "absent", messages |-> <<>>], [kind |-> "invalid", messages |-> <<>>]}
    \cup {[kind |-> "array", messages |-> c] : c \in Conversations}

\* Values a rejected await throws: an Error with a message, or another value.
Thrown ==
    {[isError |-> TRUE, message |-> "boom", str |-> "Error: boom"],
     [isError |-> FALSE, message |-> "", str |-> "oops"]}

\* The SyntaxError of request.json() and the TypeError of line 60 or 65.
SyntaxError ==
    [isError |-> TRUE, message |-> "Unexpected token", str |-> "SyntaxError: Unexpected token"]
TypeError ==
    [isError |-> TRUE, message |-> "not iterable", str |-> "TypeError: not iterable"]

\* What env.AI.run resolves to: a ReadableStream, or a value without
\* getReader: a string, a structured value (given by its JSON text), null
\* or undefined.
StreamOutput == [kind |-> "stream", chars |-> <<>>]
WholeOutputs ==
    {[kind |-> "string", chars |-> <<72, 105>>],
     [kind |-> "string", chars |-> <<34, 233>>],
     [kind |-> "string", chars |-> <<>>],
     [kind |-> "object", chars |-> <<123, 34, 97, 34, 58, 49, 125>>],
     [kind |-> "null", chars |-> <<>>],
     [kind |-> "undefined", chars |-> <<>>]}
Outputs == {StreamOutput} \cup WholeOutputs

\* A chunk reader.read() yields: a byte buffer, or a value that is none.
Buf(bytes) == [buffer |-> TRUE, bytes |-> bytes]
NotABuffer == [buffer |-> FALSE, bytes |-> <<>>]

\* The chunks a provider stream yields: ASCII, a character JSON escapes, a
\* two-byte character whole and cut before and after its first byte, and
\* the empty buffer.
Chunks ==
    {Buf(<<97>>), Buf(<<34>>), Buf(<<195, 169>>), Buf(<<97, 195>>), Buf(<<169, 98>>),
     Buf(<<195>>), Buf(<<>>), NotABuffer}

\* ------------------------------------------------------------------- state

VARIABLES
    pc,         \* each request's handler: unused, arrived, json, run, returned
    request,    \* its method, path and body
    parsed,     \* what request.json() resolved to, while the handler uses it
    messages,   \* the messages destructured from its body (line 60)
    call,       \* the provider call in flight (line 68)
    aiCalls,    \* how often env.AI.run was called for it
    response,   \* the Response returned to the runtime
    aiResponse, \* what env.AI.run resolved to
    pump,       \* the background task: none, read, write, close, done, rejected
    sink,       \* the TransformStream: none, open, closed, errored
    body,       \* the events that passed through the sink, in order
    pending,    \* the event of the writer.write() in flight
    produced,   \* the chunks the provider stream yielded, in order
    decoder,    \* the TextDecoder's state
    reads,      \* how often reader.read() was called
    writeCalls, \* how often writer.write() was called
    closeCalls, \* how often writer.close() was called
    log,        \* the console.error entries
    unhandled   \* whether the pump's promise rejected with nobody to catch it

vars == <<pc, request, parsed, messages, call, aiCalls, response, aiResponse, pump, sink,
          body, pending, produced, decoder, reads, writeCalls, closeCalls, log,
          unhandled>>

handlerVars == <<pc, request, parsed, messages, call, aiCalls, response, aiResponse>>
pumpVars == <<pump, body, pending, produced, decoder, reads, writeCalls, closeCalls>>

NoRequest == [method |-> "", path |-> "", payload |-> ""]
NoBody == [kind |-> "none", messages |-> <<>>]
NoCall == [model |-> "", instructions |-> "", input |-> <<>>, stream |-> FALSE]
NoOutput == [kind |-> "none", chars |-> <<>>]
NoResponse == [kind |-> "none", status |-> 0, contentType |-> "", json |-> <<>>]

\* The requests that arrive.
Arrivals == {1}

Init ==
    /\ pc = [r \in Req |-> IF r \in Arrivals THEN "arrived" ELSE "unused"]
    /\ request = [r \in Req |-> NoRequest]
    /\ parsed = [r \in Req |-> NoBody]
    /\ messages = [r \in Req |-> <<>>]
    /\ call = [r \in Req |-> NoCall]
    /\ aiCalls = [r \in Req |-> 0]
    /\ response = [r \in Req |-> NoResponse]
    /\ aiResponse = [r \in Req |-> NoOutput]
    /\ pump = [r \in Req |-> "none"]
    /\ sink = [r \in Req |-> "none"]
    /\ body = [r \in Req |-> <<>>]
    /\ pending = [r \in Req |-> <<>>]
    /\ produced = [r \in Req |-> <<>>]
    /\ decoder = [r \in Req |-> FreshDecoder]
    /\ reads = [r \in Req |-> 0]
    /\ writeCalls = [r \in Req |-> 0]
    /\ closeCalls = [r \in Req |-> 0]
    /\ log = [r \in Req |-> <<>>]
    /\ unhandled = [r \in Req |-> FALSE]

\* ------------------------------------------------------------- dispatcher

\* url.pathname.startsWith("/api/")
IsApiPath(path) == path \in {"/api/chat", "/api/chat/extra", "/api/unknown"}

\* Route without the check of the method: every request to /api/chat is
\* handed to handleChatRequest.
RouteAnyMethod(method, path) ==
    IF path = "/" \/ ~IsApiPath(path)
    THEN [kind |-> "asset", status |-> 0, contentType |-> "", json |-> <<>>]
    ELSE IF path = "/api/chat"
         THEN NoResponse
         ELSE [kind |-> "text", status |-> 404, contentType |-> "", json |-> <<>>]

\* What fetch answers without handleChatRequest, for a method and a path;
\* NoResponse where it hands the request to handleChatRequest.
Route(method, path) ==
    IF path = "/" \/ ~IsApiPath(path)
    THEN [kind |-> "asset", status |-> 0, contentType |-> "", json |-> <<>>]
    ELSE IF path = "/api/chat"
         THEN IF method = "POST" THEN NoResponse
              ELSE [kind |-> "text", status |-> 405, contentType |-> "", json |-> <<>>]
         ELSE [kind |-> "text", status |-> 404, contentType |-> "", json |-> <<>>]

\* fetch: a request arrives and is routed; a POST to /api/chat enters
\* handleChatRequest, which awaits request.json().
Fetch(r) ==
    /\ pc[r] = "arrived"
    /\ \E method \in Methods, path \in Paths, payload \in Payloads :
         /\ request' = [request EXCEPT ![r] =
                           [method |-> method, path |-> path, payload |-> payload]]
         /\ IF Route(method, path) = NoResponse
            THEN /\ pc' = [pc EXCEPT ![r] = "json"]
                 /\ UNCHANGED response
            ELSE /\ pc' = [pc EXCEPT ![r] = "returned"]
                 /\ response' = [response EXCEPT ![r] = Route(method, path)]
    /\ UNCHANGED <<parsed, messages, call, aiCalls, aiResponse, sink, log, unhandled>>
    /\ UNCHANGED pumpVars

\* ------------------------------------------------------ handleChatRequest

\* details: error instanceof Error ? error.message : String(error)
ErrorDetails(e) == IF e.isError THEN e.message ELSE e.str

\* ErrorResponse without its status: a Response defaults to 200.
ErrorResponseNoStatus(e) ==
    [kind |-> "json", status |-> 200, contentType |-> "application/json",
     json |-> [error |-> "Failed to process request", details |-> ErrorDetails(e)]]

\* The Response of the catch block, lines 120-131.
ErrorResponse(e) ==
    [kind |-> "json", status |-> 500, contentType |-> "application/json",
     json |-> [error |-> "Failed to process request", details |-> ErrorDetails(e)]]

\* The Response of lines 112-118.
StreamResponse ==
    [kind |-> "stream", status |-> 200, contentType |-> "text/event-stream", json |-> <<>>]

\* The catch block of handleChatRequest: log and answer 500.
CatchRequest(r, e) ==
    /\ log' = [log EXCEPT ![r] = Append(@, "request")]
    /\ response' = [response EXCEPT ![r] = ErrorResponse(e)]
    /\ pc' = [pc EXCEPT ![r] = "returned"]

\* FilterSystem dropping the assistant's messages with the system's.
FilterUserOnly(msgs) == SelectSeq(msgs, LAMBDA m : m.role = "user")

\* messages.filter((msg) => msg.role !== "system")
FilterSystem(msgs) == SelectSeq(msgs, LAMBDA m : m.role # "system")

\* The argument of env.AI.run, lines 68-72.
InferenceRequest(msgs) ==
    [model |-> MODEL_ID, instructions |-> SYSTEM_PROMPT,
     input |-> FilterSystem(msgs), stream |-> TRUE]

\* JsonReject with the failed parse taken for a body without messages.
JsonRejectAsEmpty(r) ==
    /\ pc[r] = "json"
    /\ request[r].payload = "notjson"
    /\ messages' = [messages EXCEPT ![r] = <<>>]
    /\ call' = [call EXCEPT ![r] = InferenceRequest(<<>>)]
    /\ aiCalls' = [aiCalls EXCEPT ![r] = @ + 1]
    /\ pc' = [pc EXCEPT ![r] = "run"]
    /\ UNCHANGED <<request, parsed, response, aiResponse, sink, log, unhandled>>
    /\ UNCHANGED pumpVars

\* request.json() rejects: the body is no JSON.
JsonReject(r) ==
    /\ pc[r] = "json"
    /\ request[r].payload = "notjson"
    /\ CatchRequest(r, SyntaxError)
    /\ UNCHANGED <<request, parsed, messages, call, aiCalls, aiResponse, sink, unhandled>>
    /\ UNCHANGED pumpVars

\* JsonResolve with a conversation required: a body whose messages are
\* empty or absent throws into the catch block.
JsonResolveNeedsMessages(r) ==
    /\ pc[r] = "json"
    /\ request[r].payload = "json"
    /\ \E b \in ParsedBodies :
         /\ parsed' = [parsed EXCEPT ![r] = b]
         /\ IF b.kind = "invalid" \/ b.messages = <<>>
            THEN /\ CatchRequest(r, TypeError)
                 /\ UNCHANGED <<messages, call, aiCalls>>
            ELSE /\ messages' = [messages EXCEPT ![r] = b.messages]
                 /\ call' = [call EXCEPT ![r] = InferenceRequest(b.messages)]
                 /\ aiCalls' = [aiCalls EXCEPT ![r] = @ + 1]
                 /\ pc' = [pc EXCEPT ![r] = "run"]
                 /\ UNCHANGED <<response, log>>
    /\ UNCHANGED <<request, aiResponse, sink, unhandled>>
    /\ UNCHANGED pumpVars

\* request.json() resolves: destructure messages (default []), filter them
\* and call env.AI.run; a body that cannot be destructured or filtered
\* throws into the catch block.
JsonResolve(r) ==
    /\ pc[r] = "json"
    /\ request[r].payload = "json"
    /\ \E b \in ParsedBodies :
         /\ parsed' = [parsed EXCEPT ![r] = b]
         /\ IF b.kind = "invalid"
            THEN /\ CatchRequest(r, TypeError)
                 /\ UNCHANGED <<messages, call, aiCalls>>
            ELSE /\ messages' = [messages EXCEPT ![r] = b.messages]
                 /\ call' = [call EXCEPT ![r] = InferenceRequest(b.messages)]
                 /\ aiCalls' = [aiCalls EXCEPT ![r] = @ + 1]
                 /\ pc' = [pc EXCEPT ![r] = "run"]
                 /\ UNCHANGED <<response, log>>
    /\ UNCHANGED <<request, aiResponse, sink, unhandled>>
    /\ UNCHANGED pumpVars

\* RunReject with the provider call tried again after it raised.
RunRejectRetry(r) ==
    /\ pc[r] = "run"
    /\ aiCalls' = [aiCalls EXCEPT ![r] = @ + 1]
    /\ UNCHANGED <<pc, request, parsed, messages, call, response, aiResponse, sink, log,
                   unhandled>>
    /\ UNCHANGED pumpVars

\* env.AI.run rejects: the catch block answers 500.
RunReject(r) ==
    /\ pc[r] = "run"
    /\ \E e \in Thrown : CatchRequest(r, e)
    /\ parsed' = [parsed EXCEPT ![r] = NoBody]
    /\ messages' = [messages EXCEPT ![r] = <<>>]
    /\ call' = [call EXCEPT ![r] = NoCall]
    /\ UNCHANGED <<request, aiCalls, aiResponse, sink, unhandled>>
    /\ UNCHANGED pumpVars

\* aiResponse && typeof aiResponse === 'object' && 'getReader' in aiResponse
IsStream(o) == o.kind = "stream"

\* typeof aiResponse === 'string' ? aiResponse : JSON.stringify(aiResponse)
SerializeWhole(o) ==
    CASE o.kind = "string" -> Str(o.chars)
      [] o.kind = "object" -> Str(o.chars)
      [] o.kind = "null" -> Str(<<110, 117, 108, 108>>)
      [] OTHER -> Undefined

\* PumpStart awaited by the handler: the pump has run to its end, the sink
\* is closed, before the Response is returned.
PumpAwaited(o) ==
    [pump |-> "done", reads |-> IF IsStream(o) THEN 1 ELSE 0,
     writeCalls |-> IF IsStream(o) THEN 0 ELSE 1, pending |-> <<>>,
     closeCalls |-> 1, sink |-> "closed"]

\* The pump from its start to its first await, lines 80-103: for a stream
\* the first reader.read() is pending, for another value the one
\* writer.write().
PumpStart(o) ==
    IF IsStream(o)
    THEN [pump |-> "read", reads |-> 1, writeCalls |-> 0, pending |-> <<>>,
          closeCalls |-> 0, sink |-> "open"]
    ELSE [pump |-> "write", reads |-> 0, writeCalls |-> 1,
          pending |-> EventBytes(SerializeWhole(o)), closeCalls |-> 0, sink |-> "open"]

\* env.AI.run resolves: create the TransformStream and its writer, start
\* the pump, which runs to its first await, and return the Response.  The
\* call is over and the body and messages are not read again: all three
\* are cleared.
RunResolve(r) ==
    /\ pc[r] = "run"
    /\ \E o \in Outputs :
         /\ aiResponse' = [aiResponse EXCEPT ![r] = o]
         /\ pump' = [pump EXCEPT ![r] = PumpStart(o).pump]
         /\ reads' = [reads EXCEPT ![r] = PumpStart(o).reads]
         /\ writeCalls' = [writeCalls EXCEPT ![r] = PumpStart(o).writeCalls]
         /\ closeCalls' = [closeCalls EXCEPT ![r] = PumpStart(o).closeCalls]
         /\ pending' = [pending EXCEPT ![r] = PumpStart(o).pending]
         /\ sink' = [sink EXCEPT ![r] = PumpStart(o).sink]
    /\ decoder' = [decoder EXCEPT ![r] = FreshDecoder]
    /\ response' = [response EXCEPT ![r] = StreamResponse]
    /\ pc' = [pc EXCEPT ![r] = "returned"]
    /\ parsed' = [parsed EXCEPT ![r] = NoBody]
    /\ messages' = [messages EXCEPT ![r] = <<>>]
    /\ call' = [call EXCEPT ![r] = NoCall]
    /\ UNCHANGED <<request, aiCalls, body, produced, log, unhandled>>

\* -------------------------------------------------------------- the pump

\* Finally without the writer.close(): the pump ends, the sink stays open.
FinallyNoClose(r) ==
    /\ pump' = [pump EXCEPT ![r] = "done"]
    /\ UNCHANGED closeCalls

\* The finally block, line 108: writer.close() is called and awaited.
Finally(r) ==
    /\ closeCalls' = [closeCalls EXCEPT ![r] = @ + 1]
    /\ pump' = [pump EXCEPT ![r] = "close"]

\* CatchStream without a finally block: the pump ends in the catch block.
CatchStreamNoFinally(r) ==
    /\ log' = [log EXCEPT ![r] = Append(@, "stream")]
    /\ pump' = [pump EXCEPT ![r] = "done"]
    /\ UNCHANGED closeCalls

\* The catch block of the pump, line 106, and the finally block after it.
CatchStream(r) ==
    /\ log' = [log EXCEPT ![r] = Append(@, "stream")]
    /\ Finally(r)

\* const text = decoder.decode(value, { stream: true }) and the event of
\* lines 94-96, for a chunk that is a buffer.
ChunkEvent(d, chunk) == EventBytes(Str(DecodeStream(d, chunk.bytes).text))

\* Passed with the new event put before the earlier ones.
PassedInFront(events, event) == <<event>> \o events

\* The body once an event has passed through the TransformStream.
Passed(events, event) == Append(events, event)

\* ReadResolve with writer.write() not awaited: the next chunk is pulled
\* while the write is outstanding.
ReadResolveNoAwait(r) ==
    /\ pump[r] = "read"
    /\ Len(produced[r]) < MaxChunks
    /\ \E chunk \in Chunks :
         /\ produced' = [produced EXCEPT ![r] = Append(@, chunk)]
         /\ IF chunk.buffer
            THEN /\ decoder' = [decoder EXCEPT ![r] = DecodeStream(@, chunk.bytes).d]
                 /\ pending' = [pending EXCEPT ![r] = ChunkEvent(decoder[r], chunk)]
                 /\ writeCalls' = [writeCalls EXCEPT ![r] = @ + 1]
                 /\ reads' = [reads EXCEPT ![r] = @ + 1]
                 /\ UNCHANGED <<pump, closeCalls, log>>
            ELSE /\ CatchStream(r)
                 /\ UNCHANGED <<decoder, pending, writeCalls, reads>>
    /\ UNCHANGED <<body, sink, unhandled>>
    /\ UNCHANGED handlerVars

\* ReadResolve with a chunk of no bytes skipped: no event is written for
\* it and the next chunk is pulled.
ReadResolveSkipEmpty(r) ==
    /\ pump[r] = "read"
    /\ Len(produced[r]) < MaxChunks
    /\ \E chunk \in Chunks :
         /\ produced' = [produced EXCEPT ![r] = Append(@, chunk)]
         /\ IF chunk.buffer
            THEN /\ decoder' = [decoder EXCEPT ![r] = DecodeStream(@, chunk.bytes).d]
                 /\ IF chunk.bytes = <<>>
                    THEN /\ reads' = [reads EXCEPT ![r] = @ + 1]
                         /\ UNCHANGED <<pending, writeCalls, pump>>
                    ELSE /\ pending' = [pending EXCEPT ![r] = ChunkEvent(decoder[r], chunk)]
                         /\ writeCalls' = [writeCalls EXCEPT ![r] = @ + 1]
                         /\ pump' = [pump EXCEPT ![r] = "write"]
                         /\ UNCHANGED reads
                 /\ UNCHANGED <<closeCalls, log>>
            ELSE /\ CatchStream(r)
                 /\ UNCHANGED <<decoder, pending, writeCalls, reads>>
    /\ UNCHANGED <<body, sink, unhandled>>
    /\ UNCHANGED handlerVars

\* reader.read() resolves with a chunk: decode it and call writer.write();
\* decode throws for a chunk that is no buffer.
ReadResolve(r) ==
    /\ pump[r] = "read"
    /\ Len(produced[r]) < MaxChunks
    /\ \E chunk \in Chunks :
         /\ produced' = [produced EXCEPT ![r] = Append(@, chunk)]
         /\ IF chunk.buffer
            THEN /\ decoder' = [decoder EXCEPT ![r] = DecodeStream(@, chunk.bytes).d]
                 /\ pending' = [pending EXCEPT ![r] = ChunkEvent(decoder[r], chunk)]
                 /\ writeCalls' = [writeCalls EXCEPT ![r] = @ + 1]
                 /\ pump' = [pump EXCEPT ![r] = "write"]
                 /\ UNCHANGED <<closeCalls, log>>
            ELSE /\ CatchStream(r)
                 /\ UNCHANGED <<decoder, pending, writeCalls>>
    /\ UNCHANGED <<body, reads, sink, unhandled>>
    /\ UNCHANGED handlerVars

\* reader.read() resolves with done: leave the loop, then the finally block.
ReadDone(r) ==
    /\ pump[r] = "read"
    /\ Finally(r)
    /\ UNCHANGED <<body, pending, produced, decoder, reads, writeCalls, sink, log, unhandled>>
    /\ UNCHANGED handlerVars

\* reader.read() rejects: the provider stream failed.
ReadReject(r) ==
    /\ pump[r] = "read"
    /\ CatchStream(r)
    /\ UNCHANGED <<body, pending, produced, decoder, reads, writeCalls, sink, unhandled>>
    /\ UNCHANGED handlerVars

\* AfterWrite with every output pumped as a stream.
AfterWriteLoop(o) == "read"

\* Where the pump goes once its write resolved: the loop's next
\* reader.read() for a stream, the finally block otherwise.
AfterWrite(o) == IF IsStream(o) THEN "read" ELSE "close"

\* WriteResolve with one writer kept at module level and shared by all
\* requests: every event passes into the first request's sink.
WriteResolveShared(r) ==
    /\ pump[r] = "write"
    /\ sink[r] = "open"
    /\ body' = [body EXCEPT ![1] = Passed(@, pending[r])]
    /\ pending' = [pending EXCEPT ![r] = <<>>]
    /\ IF AfterWrite(aiResponse[r]) = "read"
       THEN /\ reads' = [reads EXCEPT ![r] = @ + 1]
            /\ pump' = [pump EXCEPT ![r] = "read"]
            /\ UNCHANGED closeCalls
       ELSE /\ Finally(r)
            /\ UNCHANGED reads
    /\ UNCHANGED <<produced, decoder, writeCalls, sink, log, unhandled>>
    /\ UNCHANGED handlerVars

\* writer.write() resolves: the event passed through the open sink.
WriteResolve(r) ==
    /\ pump[r] = "write"
    /\ sink[r] = "open"
    /\ body' = [body EXCEPT ![r] = Passed(@, pending[r])]
    /\ pending' = [pending EXCEPT ![r] = <<>>]
    /\ IF AfterWrite(aiResponse[r]) = "read"
       THEN /\ reads' = [reads EXCEPT ![r] = @ + 1]
            /\ pump' = [pump EXCEPT ![r] = "read"]
            /\ UNCHANGED closeCalls
       ELSE /\ Finally(r)
            /\ UNCHANGED reads
    /\ UNCHANGED <<produced, decoder, writeCalls, sink, log, unhandled>>
    /\ UNCHANGED handlerVars

\* WriteReject with the loop carrying on after the logged failure.
WriteRejectCarryOn(r) ==
    /\ pump[r] = "write"
    /\ sink[r] = "errored"
    /\ pending' = [pending EXCEPT ![r] = <<>>]
    /\ log' = [log EXCEPT ![r] = Append(@, "stream")]
    /\ reads' = [reads EXCEPT ![r] = @ + 1]
    /\ pump' = [pump EXCEPT ![r] = "read"]
    /\ UNCHANGED <<body, produced, decoder, writeCalls, closeCalls, sink, unhandled>>
    /\ UNCHANGED handlerVars

\* writer.write() rejects: the sink is errored, the event is dropped.
WriteReject(r) ==
    /\ pump[r] = "write"
    /\ sink[r] = "errored"
    /\ pending' = [pending EXCEPT ![r] = <<>>]
    /\ CatchStream(r)
    /\ UNCHANGED <<body, produced, decoder, reads, writeCalls, sink, unhandled>>
    /\ UNCHANGED handlerVars

\* CloseResolve followed by a second writer.close().
CloseResolveTwice(r) ==
    /\ pump[r] = "close"
    /\ sink[r] = "open"
    /\ sink' = [sink EXCEPT ![r] = "closed"]
    /\ closeCalls' = [closeCalls EXCEPT ![r] = @ + 1]
    /\ UNCHANGED <<pump, body, pending, produced, decoder, reads, writeCalls, log, unhandled>>
    /\ UNCHANGED handlerVars

\* writer.close() resolves: the sink is closed and the pump is over.
CloseResolve(r) ==
    /\ pump[r] = "close"
    /\ sink[r] = "open"
    /\ sink' = [sink EXCEPT ![r] = "closed"]
    /\ pump' = [pump EXCEPT ![r] = "done"]
    /\ UNCHANGED <<body, pending, produced, decoder, reads, writeCalls, closeCalls, log,
                   unhandled>>
    /\ UNCHANGED handlerVars

\* writer.close() rejects, the sink being errored: the await of line 108
\* throws out of the finally block and the pump's promise, which nothing
\* awaits or catches, rejects.
CloseReject(r) ==
    /\ pump[r] = "close"
    /\ sink[r] = "errored"
    /\ pump' = [pump EXCEPT ![r] = "rejected"]
    /\ unhandled' = [unhandled EXCEPT ![r] = TRUE]
    /\ UNCHANGED <<body, pending, produced, decoder, reads, writeCalls, closeCalls, log, sink>>
    /\ UNCHANGED handlerVars

\* The client goes away while the pump waits for a chunk or for its write
\* to pass: the runtime cancels the readable side it was given as the
\* Response body, which errors the writable side.
ClientCancel(r) ==
    /\ response[r].kind = "stream"
    /\ sink[r] = "open"
    /\ pump[r] \in {"read", "write"}
    /\ sink' = [sink EXCEPT ![r] = "errored"]
    /\ UNCHANGED <<log, unhandled>>
    /\ UNCHANGED pumpVars
    /\ UNCHANGED handlerVars

\* ------------------------------------------------------------ specification

Next ==
    \E r \in Req :
        \/ Fetch(r)
        \/ JsonReject(r)
        \/ JsonResolve(r)
        \/ RunReject(r)
        \/ RunResolve(r)
        \/ ReadResolve(r)
        \/ ReadDone(r)
        \/ ReadReject(r)
        \/ WriteResolve(r)
        \/ WriteReject(r)
        \/ CloseResolve(r)
        \/ CloseReject(r)
        \/ ClientCancel(r)

Spec == Init /\ [][Next]_vars

\* Two requests in the worker at once, their steps interleaved at every
\* await.  To keep the product of the two small, both are chat requests
\* with at most one message, and their providers answer with a stream of
\* the chunks "a" and "\"" or with the string "Hi".
ArrivalsTwo == {1, 2}

InitTwo ==
    /\ pc = [r \in Req |-> IF r \in ArrivalsTwo THEN "arrived" ELSE "unused"]
    /\ request = [r \in Req |-> NoRequest]
    /\ parsed = [r \in Req |-> NoBody]
    /\ messages = [r \in Req |-> <<>>]
    /\ call = [r \in Req |-> NoCall]
    /\ aiCalls = [r \in Req |-> 0]
    /\ response = [r \in Req |-> NoResponse]
    /\ aiResponse = [r \in Req |-> NoOutput]
    /\ pump = [r \in Req |-> "none"]
    /\ sink = [r \in Req |-> "none"]
    /\ body = [r \in Req |-> <<>>]
    /\ pending = [r \in Req |-> <<>>]
    /\ produced = [r \in Req |-> <<>>]
    /\ decoder = [r \in Req |-> FreshDecoder]
    /\ reads = [r \in Req |-> 0]
    /\ writeCalls = [r \in Req |-> 0]
    /\ closeCalls = [r \in Req |-> 0]
    /\ log = [r \in Req |-> <<>>]
    /\ unhandled = [r \in Req |-> FALSE]

\* The inputs of the two requests.
SmallInputs ==
    \A r \in Req :
        /\ request[r].method \in {"", "POST"}
        /\ request[r].path \in {"", "/api/chat"}
        /\ messages[r] \in {<<>>, <<[role |-> "user", content |-> "hi"]>>}
        /\ aiResponse[r] \in {NoOutput, StreamOutput, [kind |-> "string", chars |-> <<72, 105>>]}
        /\ \A k \in 1..Len(produced[r]) : produced[r][k] \in {Buf(<<97>>), Buf(<<34>>)}

NextTwo ==
    \E r \in Req :
        \/ Fetch(r) /\ SmallInputs'
        \/ JsonReject(r) /\ SmallInputs'
        \/ JsonResolve(r) /\ SmallInputs'
        \/ RunReject(r) /\ SmallInputs'
        \/ RunResolve(r) /\ SmallInputs'
        \/ ReadResolve(r) /\ SmallInputs'
        \/ ReadDone(r) /\ SmallInputs'
        \/ ReadReject(r) /\ SmallInputs'
        \/ WriteResolve(r) /\ SmallInputs'
        \/ WriteReject(r) /\ SmallInputs'
        \/ CloseResolve(r) /\ SmallInputs'
        \/ CloseReject(r) /\ SmallInputs'
        \/ ClientCancel(r) /\ SmallInputs'

SpecTwo == InitTwo /\ [][NextTwo]_vars

\* The runtime settles what the pump awaits on its own TransformStream: a
\* writer.write() passes while the client reads the body or rejects once
\* the sink is errored, and a writer.close() resolves or rejects.  What
\* the provider and the client do is left open.
Fairness ==
    \A r \in Req :
        /\ WF_vars(WriteResolve(r))
        /\ WF_vars(WriteReject(r))
        /\ WF_vars(CloseResolve(r))
        /\ WF_vars(CloseReject(r))

SpecLive == Init /\ [][Next]_vars /\ Fairness

\* ------------------------------------------------------------------ claims

\* The pump is over: its promise resolved (done) or rejected.
PumpStopped(r) == pump[r] \in {"done", "rejected"}

\* The pump's catch block ran: a chunk pull, a decode or a sink write raised.
PumpFailed(r) == log[r] # <<>> /\ log[r][Len(log[r])] = "stream"

\* The bytes of the first k chunks of a provider stream, joined.
BytesUpTo(chunks, k) == Flatten([i \in 1..k |-> chunks[i].bytes])

\* The text the k-th chunk adds to the decoding of the stream so far.
TextOfChunk(chunks, k) ==
    LET before == DecodeStream(FreshDecoder, BytesUpTo(chunks, k - 1)).text
        upto == DecodeStream(FreshDecoder, BytesUpTo(chunks, k)).text
    IN SubSeq(upto, Len(before) + 1, Len(upto))

\* C1: for a stream output the events that passed through the sink are, in
\* order, the events of the first chunks the provider yielded, one event
\* per chunk, the k-th carrying the text of the k-th chunk; once the pump
\* has ended without a failure there is one event for every chunk.
C1_OrderedRelay ==
    \A r \in Req :
        IsStream(aiResponse[r]) =>
            /\ Len(body[r]) <= Len(produced[r])
            /\ \A k \in 1..Len(body[r]) :
                 /\ produced[r][k].buffer
                 /\ body[r][k] = EventBytes(Str(TextOfChunk(produced[r], k)))
            /\ (pump[r] = "done" /\ log[r] = <<>> => Len(body[r]) = Len(produced[r]))

\* C1 witness: a stream of three chunks relayed and closed, its first two
\* events different.
C1_Witness ==
    \E r \in Req :
        /\ IsStream(aiResponse[r])
        /\ pump[r] = "done" /\ log[r] = <<>> /\ sink[r] = "closed"
        /\ Len(body[r]) = 3
        /\ body[r][1] # body[r][2]

\* C2 as stated: whenever the pump is over the sink is CLOSED.
C2_ClosedOnEveryExit == \A r \in Req : PumpStopped(r) => sink[r] = "closed"

\* C2 amended: whenever the pump is over writer.close() was called once
\* and the sink is not open: it is CLOSED when the close resolved, and
\* errored, with the close rejected, when the sink had been errored.
C2_NeverLeftOpen ==
    \A r \in Req :
        PumpStopped(r) =>
            /\ closeCalls[r] = 1
            /\ sink[r] \in {"closed", "errored"}
            /\ (pump[r] = "done" <=> sink[r] = "closed")

\* C2 witness: the pump is over after a failed chunk pull, the sink CLOSED.
C2_Witness ==
    \E r \in Req : pump[r] = "done" /\ PumpFailed(r) /\ sink[r] = "closed"

\* C3: no failure of the handler or of the pump is left uncaught.
C3_NothingUnhandled == \A r \in Req : ~unhandled[r]

\* C4 as stated: once the pump has failed no event passes through the
\* sink, no chunk is pulled, no write is called and the returned response
\* stays as it is; the events passed are those of the first chunks; and
\* when the pump is over the sink is CLOSED.
C4_FailedPumpClosesSink ==
    [][\A r \in Req :
          PumpFailed(r) =>
              /\ response[r].status = 200
              /\ response'[r] = response[r]
              /\ body'[r] = body[r]
              /\ reads'[r] = reads[r]
              /\ writeCalls'[r] = writeCalls[r]
              /\ Len(body[r]) <= Len(produced[r])
              /\ \A k \in 1..Len(body[r]) :
                   body[r][k] = EventBytes(Str(TextOfChunk(produced[r], k)))
              /\ (pump'[r] \in {"done", "rejected"} => sink'[r] = "closed")]_vars

\* C4 amended: as C4, but when the pump is over the sink is no longer open:
\* CLOSED, or errored when the failed write or a cancel had errored it.
C4_FailedPumpStops ==
    [][\A r \in Req :
          PumpFailed(r) =>
              /\ response[r].status = 200
              /\ response'[r] = response[r]
              /\ body'[r] = body[r]
              /\ reads'[r] = reads[r]
              /\ writeCalls'[r] = writeCalls[r]
              /\ Len(body[r]) <= Len(produced[r])
              /\ \A k \in 1..Len(body[r]) :
                   body[r][k] = EventBytes(Str(TextOfChunk(produced[r], k)))
              /\ (pump'[r] \in {"done", "rejected"} => sink'[r] \in {"closed", "errored"})
              /\ (pump'[r] = "done" => sink'[r] = "closed")]_vars

\* C4 witness: a sink write failed after one event had passed, and the pump
\* is over.
C4_Witness ==
    \E r \in Req :
        /\ PumpFailed(r) /\ PumpStopped(r)
        /\ writeCalls[r] = 2 /\ Len(body[r]) = 1 /\ Len(produced[r]) = 2
        /\ produced[r][2].buffer

\* The provider call of a request raised: env.AI.run was called and the
\* handler's catch block ran.
ProviderRaised(r) == aiCalls[r] = 1 /\ log[r] = <<"request">>

\* C5: when the provider call raised, the response has status 500 and a
\* JSON body with the keys error and details, and there is no sink, no
\* pump and no event-stream response.
C5_ProviderErrorIs500 ==
    \A r \in Req :
        ProviderRaised(r) =>
            /\ pc[r] = "returned"
            /\ response[r].status = 500
            /\ response[r].kind = "json"
            /\ DOMAIN response[r].json = {"error", "details"}
            /\ sink[r] = "none" /\ pump[r] = "none"
            /\ writeCalls[r] = 0 /\ reads[r] = 0 /\ body[r] = <<>>

\* C5 witness: the provider call raised a value that is no Error.
C5_Witness ==
    \E r \in Req : ProviderRaised(r) /\ response[r].json.details = "oops"

\* A POST to /api/chat whose body is no JSON.
NonJsonChat(r) ==
    /\ request[r].method = "POST" /\ request[r].path = "/api/chat"
    /\ request[r].payload = "notjson"

\* C6: a POST to /api/chat whose body is no JSON never calls the provider
\* and, once request.json() has settled, has returned a 500 JSON response:
\* the handler waits for nothing else, starts no pump and leaves no
\* failure unhandled.
C6_NonJsonIs500 ==
    \A r \in Req :
        NonJsonChat(r) =>
            /\ aiCalls[r] = 0 /\ call[r] = NoCall
            /\ pc[r] \in {"json", "returned"}
            /\ ~unhandled[r]
            /\ pump[r] = "none" /\ sink[r] = "none"
            /\ (pc[r] = "returned" =>
                  /\ response[r].status = 500
                  /\ response[r].kind = "json"
                  /\ DOMAIN response[r].json = {"error", "details"})

\* C6 witness: the 500 response to a body that is no JSON.
C6_Witness ==
    \E r \in Req : NonJsonChat(r) /\ pc[r] = "returned" /\ response[r].status = 500

RECURSIVE WithoutSystem(_)
\* The messages of a conversation whose role is not system, in order.
WithoutSystem(msgs) ==
    IF msgs = <<>> THEN <<>>
    ELSE IF Head(msgs).role = "system" THEN WithoutSystem(Tail(msgs))
         ELSE <<Head(msgs)>> \o WithoutSystem(Tail(msgs))

\* C7: the input of the provider call is the conversation without its
\* system messages, in order, and its instructions are SYSTEM_PROMPT.
C7_SystemFiltered ==
    \A r \in Req :
        pc[r] = "run" =>
            /\ call[r].input = WithoutSystem(messages[r])
            /\ \A i \in 1..Len(call[r].input) : call[r].input[i].role # "system"
            /\ call[r].instructions = SYSTEM_PROMPT
            /\ call[r].instructions \notin {m.content : m \in ChatMessages}

\* C7 witness: a call for a conversation of a system message and an
\* assistant message, forwarded without the first.
C7_Witness ==
    \E r \in Req :
        /\ pc[r] = "run"
        /\ Len(messages[r]) = 2 /\ Len(call[r].input) = 1
        /\ messages[r][1].role = "system" /\ messages[r][2].role = "assistant"

\* C8: the step that returns the event-stream response leaves the sink
\* open and the pump waiting on its first chunk pull or sink write: no
\* chunk was yielded, no event passed, no close was called.
C8_ReturnsBeforePump ==
    [][\A r \in Req :
          pc[r] = "run" /\ response'[r].kind = "stream" =>
              /\ pc'[r] = "returned"
              /\ response'[r].status = 200
              /\ sink'[r] = "open"
              /\ pump'[r] \in {"read", "write"}
              /\ produced'[r] = <<>> /\ body'[r] = <<>>
              /\ closeCalls'[r] = 0]_vars

\* C8 witness: the response is returned, the provider has yielded nothing
\* and the client has read nothing.
C8_Witness ==
    \E r \in Req :
        /\ pc[r] = "returned" /\ response[r].kind = "stream"
        /\ pump[r] = "read" /\ produced[r] = <<>> /\ sink[r] = "open"

\* C9: for an output that is no stream the pump calls writer.write() once,
\* with the event of the serialized value, never reads, and calls
\* writer.close() only after that write; a sink that is CLOSED holds
\* exactly that one event, and the string "Hi" gives {"response":"Hi"}\n.
C9_WholeIsOneWrite ==
    \A r \in Req :
        aiResponse[r] \in WholeOutputs =>
            /\ writeCalls[r] = 1 /\ reads[r] = 0 /\ produced[r] = <<>>
            /\ closeCalls[r] <= 1
            /\ Len(body[r]) <= 1
            /\ (pump[r] = "write" => body[r] = <<>> /\ closeCalls[r] = 0 /\ sink[r] # "closed")
            /\ (sink[r] = "closed" =>
                  /\ body[r] = <<Encode(StringifyResponse(SerializeWhole(aiResponse[r])) \o <<10>>)>>
                  /\ pump[r] = "done")
            /\ (sink[r] = "closed" /\ aiResponse[r] = [kind |-> "string", chars |-> <<72, 105>>] =>
                  body[r] = << <<123, 34, 114, 101, 115, 112, 111, 110, 115, 101, 34, 58,
                                34, 72, 105, 34, 125, 10>> >>)

\* C9 witness: the string "Hi" written and the sink closed.
C9_Witness ==
    \E r \in Req :
        /\ aiResponse[r] = [kind |-> "string", chars |-> <<72, 105>>]
        /\ sink[r] = "closed" /\ Len(body[r]) = 1

\* C10: once writer.close() has been called, and so once the sink is
\* CLOSED, no writer.write() and no second writer.close() is called, no
\* event passes, and a CLOSED sink stays CLOSED.
C10_ClosedIsTerminal ==
    [][\A r \in Req :
          /\ closeCalls[r] >= 1 =>
                /\ writeCalls'[r] = writeCalls[r]
                /\ closeCalls'[r] = closeCalls[r]
                /\ body'[r] = body[r]
          /\ sink[r] = "closed" => sink'[r] = "closed" /\ closeCalls[r] = 1]_vars

\* C10 witness: a CLOSED sink after two events.
C10_Witness ==
    \E r \in Req : sink[r] = "closed" /\ Len(body[r]) = 2 /\ closeCalls[r] = 1

\* The events of the first n chunks of a request's provider stream.
OwnEvents(r, n) == [k \in 1..n |-> EventBytes(Str(TextOfChunk(produced[r], k)))]

\* C11: with two requests handled at once, each response body holds the
\* events of its own provider output and nothing else: for a stream the
\* events of the first chunks its own provider yielded, all of them after
\* a failure-free close; for another value at most the one event of that
\* value; and a request without a provider output has an empty body.
C11_NoLeakBetweenRequests ==
    \A r \in Req :
        /\ IsStream(aiResponse[r]) =>
              /\ Len(body[r]) <= Len(produced[r])
              /\ body[r] = OwnEvents(r, Len(body[r]))
              /\ (pump[r] = "done" /\ log[r] = <<>> => Len(body[r]) = Len(produced[r]))
        /\ aiResponse[r] \in WholeOutputs =>
              /\ body[r] \in {<<>>, <<EventBytes(SerializeWhole(aiResponse[r]))>>}
              /\ (sink[r] = "closed" => Len(body[r]) = 1)
        /\ aiResponse[r] = NoOutput => body[r] = <<>>

\* C11 witness: two streams relayed and closed, the two providers having
\* yielded different chunks, each body holding its own events.
C11_Witness ==
    /\ IsStream(aiResponse[1]) /\ IsStream(aiResponse[2])
    /\ sink[1] = "closed" /\ sink[2] = "closed"
    /\ Len(body[1]) = 2 /\ Len(body[2]) = 2
    /\ body[1][1] # body[2][1] /\ body[1][2] # body[2][2]

\* A request that fetch has routed.
Routed(r) == pc[r] \notin {"unused", "arrived"}

\* C12: a request to /api/chat with another method than POST is answered
\* 405 at once, its body never parsed; any other path under /api/ is
\* answered 404 whatever the method; "/" and every path not under /api/ is
\* answered by the static assets; and only a POST to /api/chat parses a
\* body or calls the provider.
C12_Dispatch ==
    \A r \in Req :
        Routed(r) =>
            /\ (request[r].path = "/api/chat" /\ request[r].method # "POST" =>
                  /\ pc[r] = "returned"
                  /\ response[r].kind = "text" /\ response[r].status = 405)
            /\ (request[r].path \in {"/api/chat/extra", "/api/unknown"} =>
                  /\ pc[r] = "returned"
                  /\ response[r].kind = "text" /\ response[r].status = 404)
            /\ (request[r].path \in {"/", "/index.html"} =>
                  /\ pc[r] = "returned"
                  /\ response[r].kind = "asset")
            /\ (~(request[r].path = "/api/chat" /\ request[r].method = "POST") =>
                  /\ aiCalls[r] = 0 /\ call[r] = NoCall
                  /\ log[r] = <<>> /\ pump[r] = "none" /\ sink[r] = "none")

\* C12 witness: a PUT to /api/chat answered 405.
C12_Witness ==
    \E r \in Req :
        /\ request[r].path = "/api/chat" /\ request[r].method = "PUT"
        /\ response[r].status = 405

\* The body of a request was parsed and its messages are empty or absent.
EmptyConversation(r) ==
    parsed[r].kind = "absent" \/ (parsed[r].kind = "array" /\ parsed[r].messages = <<>>)

\* C13: a body whose messages are empty or absent has not gone to the catch
\* block: env.AI.run was called once, with an empty input, and nothing was
\* logged.
C13_EmptyStillCalls ==
    \A r \in Req :
        EmptyConversation(r) =>
            /\ pc[r] = "run"
            /\ aiCalls[r] = 1
            /\ call[r].input = <<>>
            /\ call[r].model = MODEL_ID /\ call[r].stream
            /\ log[r] = <<>> /\ response[r] = NoResponse

\* C13 witness: the provider call for a body without messages.
C13_Witness ==
    \E r \in Req : parsed[r].kind = "absent" /\ pc[r] = "run" /\ call[r].input = <<>>

\* The chunks of a request's provider stream that are buffers.
BufferChunks(r) == {k \in 1..Len(produced[r]) : produced[r][k].buffer}

\* C14 as stated: a stream that was relayed without failure and closed had
\* one write per chunk, and at least one write.
C14_AtLeastOneWrite ==
    \A r \in Req :
        IsStream(aiResponse[r]) /\ sink[r] = "closed" /\ log[r] = <<>> =>
            /\ writeCalls[r] = Len(produced[r])
            /\ Len(body[r]) = Len(produced[r])
            /\ writeCalls[r] >= 1

\* C14 amended: for a stream writer.write() is called once for every chunk
\* that decodes, any number of times from zero on, and writer.close() only
\* after the last write has passed; a stream relayed without failure and
\* closed has one event per chunk, none for a stream that yielded none.
C14_OneWritePerChunk ==
    \A r \in Req :
        IsStream(aiResponse[r]) =>
            /\ writeCalls[r] = Cardinality(BufferChunks(r))
            /\ Len(body[r]) <= writeCalls[r]
            /\ (closeCalls[r] >= 1 => pending[r] = <<>> /\ pump[r] \in {"close", "done", "rejected"})
            /\ (sink[r] = "closed" /\ log[r] = <<>> =>
                  /\ writeCalls[r] = Len(produced[r])
                  /\ Len(body[r]) = Len(produced[r]))

\* C14 witness: a stream of two chunks, one of no bytes, relayed and closed.
C14_Witness ==
    \E r \in Req :
        /\ IsStream(aiResponse[r]) /\ sink[r] = "closed" /\ log[r] = <<>>
        /\ writeCalls[r] = 2 /\ Len(body[r]) = 2
        /\ produced[r][1] = Buf(<<>>)

\* C15: at most one writer.write() has been called and has not passed, and
\* that only while the pump awaits it; the pump has called reader.read()
\* at most once more than events have passed, so chunk k+1 is requested
\* only after the write of chunk k is over, and at most one chunk is
\* pulled and not yet written.
C15_SequentialWrites ==
    \A r \in Req :
        /\ writeCalls[r] - Len(body[r]) \in {0, 1}
        /\ (pump[r] = "write" <=> pending[r] # <<>>)
        /\ (pump[r] = "write" => writeCalls[r] = Len(body[r]) + 1)
        /\ (pump[r] = "read" => writeCalls[r] = Len(body[r]))
        /\ reads[r] <= Len(body[r]) + 1
        /\ Len(produced[r]) <= reads[r]
        /\ (IsStream(aiResponse[r]) => Len(produced[r]) - Len(body[r]) \in {0, 1})

\* C15 witness: the third chunk is being pulled, two events have passed.
C15_Witness ==
    \E r \in Req : pump[r] = "read" /\ reads[r] = 3 /\ Len(body[r]) = 2 /\ writeCalls[r] = 2

RECURSIVE Unescape(_)
\* The text of the inside of a JSON string literal.
Unescape(chars) ==
    IF chars = <<>> THEN <<>>
    ELSE IF Head(chars) = 92 /\ Len(chars) >= 2
         THEN <<CASE chars[2] = 98 -> 8
                  [] chars[2] = 116 -> 9
                  [] chars[2] = 110 -> 10
                  [] chars[2] = 102 -> 12
                  [] chars[2] = 114 -> 13
                  [] OTHER -> chars[2]>> \o Unescape(SubSeq(chars, 3, Len(chars)))
         ELSE <<Head(chars)>> \o Unescape(Tail(chars))

\* The response text a client reads from one event {"response":"..."}\n.
EventText(event) ==
    LET chars == DecodeStream(FreshDecoder, event).text
    IN Unescape(SubSeq(chars, 14, Len(chars) - 3))

\* The text of a whole byte sequence: what is left unfinished at its end
\* decodes to U+FFFD.
DecodeWhole(bytes) ==
    LET r == DecodeStream(FreshDecoder, bytes)
    IN r.text \o (IF r.d.needed # 0 THEN <<REPLACEMENT>> ELSE <<>>)

\* C16: when a stream has been relayed without failure and the sink is
\* closed, the response texts of its events, joined, are the text of all
\* the bytes the provider yielded.
C16_NoBytesLost ==
    \A r \in Req :
        IsStream(aiResponse[r]) /\ sink[r] = "closed" /\ log[r] = <<>> =>
            Flatten([k \in 1..Len(body[r]) |-> EventText(body[r][k])])
                = DecodeWhole(BytesUpTo(produced[r], Len(produced[r])))

RECURSIVE WellEscaped(_)
\* The inside of a JSON string literal: no bare quote, backslash or control
\* character, every backslash followed by a character it may escape.
WellEscaped(chars) ==
    IF chars = <<>> THEN TRUE
    ELSE IF Head(chars) = 92
         THEN /\ Len(chars) >= 2
              /\ chars[2] \in {34, 92, 47, 98, 102, 110, 114, 116}
              /\ WellEscaped(SubSeq(chars, 3, Len(chars)))
         ELSE Head(chars) # 34 /\ Head(chars) >= 32 /\ WellEscaped(Tail(chars))

\* The bytes are one line {"response":"..."}\n: a JSON object whose
\* response field is a string, and a newline.
IsResponseLine(event) ==
    LET line == DecodeStream(FreshDecoder, event)
        chars == line.text
    IN /\ line.d.needed = 0
       /\ Len(chars) >= 16
       /\ SubSeq(chars, 1, 13) = <<123, 34, 114, 101, 115, 112, 111, 110, 115, 101, 34, 58, 34>>
       /\ SubSeq(chars, Len(chars) - 2, Len(chars)) = <<34, 125, 10>>
       /\ WellEscaped(SubSeq(chars, 14, Len(chars) - 3))

\* C17: every event the pump writes, for a stream and for every other
\* provider output, is one JSON object with a string response field and a
\* newline.
C17_EveryWriteIsResponseLine ==
    \A r \in Req :
        /\ pump[r] = "write" => IsResponseLine(pending[r])
        /\ \A k \in 1..Len(body[r]) : IsResponseLine(body[r][k])

\* A POST to /api/chat whose request.json() has settled.
ChatParsed(r) ==
    /\ request[r].method = "POST" /\ request[r].path = "/api/chat"
    /\ pc[r] \in {"run", "returned"}

DoneSignalled(r) ==
    /\ IsStream(aiResponse[r])
    /\ pump[r] \in {"close", "done", "rejected"}
    /\ log[r] = <<>>

\* The pump is over, an event has passed for every chunk and the sink is
\* closed.
PumpComplete(r) ==
    /\ pump[r] = "done"
    /\ sink[r] = "closed"
    /\ pending[r] = <<>>
    /\ Len(body[r]) = Len(produced[r])
    /\ writeCalls[r] = Len(produced[r])

\* C19: when the client never goes away and the provider stream signals
\* done, the pump ends with one event written for every chunk and the sink
\* closed; and while the client stays, a write or a close the pump waits
\* for does not stay outstanding for ever.
C19_PumpCompletes ==
    \A r \in Req :
        /\ ([](sink[r] # "errored") /\ <>DoneSignalled(r)) => <>PumpComplete(r)
        /\ [](sink[r] # "errored") => (pump[r] \in {"write", "close"} ~> pump[r] \in {"read", "done"})

\* C19 witness: a stream of two chunks or more was pumped to its end and
\* the sink closed.
C19_Witness ==
    \E r \in Req :
        /\ DoneSignalled(r) /\ PumpComplete(r)
        /\ Len(produced[r]) >= 2

====
